---- MODULE Spec2Model ----
(***************************************************************************)
(* Model of app.py (Excel / CSV -> GeoJSON converter): the geometry        *)
(* builders make_gdf_from_xy and make_gdf_from_wkt, the reprojection steps *)
(* and the GeoJSON encoder, as the script runs them top to bottom.         *)
(*                                                                         *)
(* Text cells are sequences of lexemes, numbers are integers, and the      *)
(* geodetic transformation is a per-CRS translation of the plane, which    *)
(* is invertible and differs for every pair of distinct CRSs.              *)
(***************************************************************************)
EXTENDS Integers, Sequences, FiniteSets, TLC

\* Largest number of rows of an uploaded table.
MaxRows == 2

----------------------------------------------------------------------------
(* Cells of a table *)

NoGeom == [type |-> "None", coords |-> <<>>]
Geom(t, cs) == [type |-> t, coords |-> cs]

\* A cell is missing (NaN / None), a number, a text (its lexemes) or, in the
\* temporary __geom__ column only, a geometry object.
NaN == [k |-> "nan", n |-> 0, s |-> <<>>, g |-> NoGeom]
Num(i) == [k |-> "num", n |-> i, s |-> <<>>, g |-> NoGeom]
Str(t) == [k |-> "str", n |-> 0, s |-> t, g |-> NoGeom]
GeomCell(gm) == [k |-> "geom", n |-> 0, s |-> <<>>, g |-> gm]

\* The numeric lexemes and their values.
NumVal == ("0" :> 0) @@ ("1" :> 1) @@ ("2" :> 2) @@ ("3" :> 3) @@ ("7" :> 7)

IsNumTok(t) == t \in DOMAIN NumVal

\* pd.notna / pd.isna on one cell
notna(c) == c.k # "nan"

\* pd.to_numeric(..., errors="coerce") on one cell: a number stays, a text
\* that is one numeric literal (with an optional sign) is parsed, anything
\* else becomes NaN.
to_numeric(c) ==
    CASE c.k = "num" -> c
      [] c.k = "str" /\ Len(c.s) = 1 /\ IsNumTok(c.s[1]) -> Num(NumVal[c.s[1]])
      [] c.k = "str" /\ Len(c.s) = 2 /\ c.s[1] = "-" /\ IsNumTok(c.s[2])
            -> Num(0 - NumVal[c.s[2]])
      [] OTHER -> NaN

----------------------------------------------------------------------------
(* The WKT reader *)

RECURSIVE ParseCoords(_)
\* A comma separated list of "x y" pairs; <<>> when the list is malformed.
ParseCoords(toks) ==
    IF Len(toks) >= 2 /\ IsNumTok(toks[1]) /\ IsNumTok(toks[2])
    THEN LET p == <<NumVal[toks[1]], NumVal[toks[2]]>>
         IN IF Len(toks) = 2 THEN <<p>>
            ELSE IF toks[3] = "," /\ Len(toks) > 3
                 THEN LET rest == ParseCoords(SubSeq(toks, 4, Len(toks)))
                      IN IF rest = <<>> THEN <<>> ELSE <<p>> \o rest
                 ELSE <<>>
    ELSE <<>>

\* shapely.wkt.loads on a text: [ok, geom]; ok = FALSE is a raised exception
\* (malformed syntax, unknown geometry type, unclosed ring).
wkt_parse(s) ==
    LET bad == [ok |-> FALSE, geom |-> NoGeom]
        n == Len(s)
    IN IF n < 4 \/ s[2] # "(" \/ s[n] # ")" THEN bad
       ELSE CASE s[1] = "POINT" ->
                   LET cs == ParseCoords(SubSeq(s, 3, n - 1))
                   IN IF Len(cs) = 1 THEN [ok |-> TRUE, geom |-> Geom("Point", cs)]
                      ELSE bad
              [] s[1] = "LINESTRING" ->
                   LET cs == ParseCoords(SubSeq(s, 3, n - 1))
                   IN IF Len(cs) >= 2
                      THEN [ok |-> TRUE, geom |-> Geom("LineString", cs)]
                      ELSE bad
              [] s[1] = "POLYGON" ->
                   IF n < 6 \/ s[3] # "(" \/ s[n - 1] # ")" THEN bad
                   ELSE LET cs == ParseCoords(SubSeq(s, 4, n - 2))
                        IN IF Len(cs) >= 4 /\ cs[1] = cs[Len(cs)]
                           THEN [ok |-> TRUE, geom |-> Geom("Polygon", cs)]
                           ELSE bad
              [] OTHER -> bad

\* wkt.loads(s) as the lambda of make_gdf_from_wkt calls it on a non-null
\* cell: a cell that is not text raises as well.
wkt_loads(c) ==
    IF c.k = "str" THEN wkt_parse(c.s) ELSE [ok |-> FALSE, geom |-> NoGeom]

----------------------------------------------------------------------------
(* Tables (pandas DataFrame) *)

\* A table is [columns: sequence of distinct names, rows: sequence of
\* functions from the column names to cells]. A working frame also carries
\* each row's index label, which dropna keeps.
ColSet(t) == {t.columns[i] : i \in DOMAIN t.columns}

frame_of(df) ==
    [columns |-> df.columns,
     rows |-> [i \in 1..Len(df.rows) |-> [idx |-> i, cells |-> df.rows[i]]]]

\* frame[c] = vals (one cell per row): an existing column is overwritten in
\* place, a new one is appended.
assign_column(fr, c, vals) ==
    [columns |-> IF c \in ColSet(fr) THEN fr.columns ELSE Append(fr.columns, c),
     rows |-> [i \in 1..Len(fr.rows) |->
                 [idx |-> fr.rows[i].idx,
                  cells |-> (c :> vals[i]) @@ fr.rows[i].cells]]]

\* frame[c], one cell per row
column(fr, c) == [i \in 1..Len(fr.rows) |-> fr.rows[i].cells[c]]

\* frame.dropna(subset=...): the rows with no missing cell in the subset.
dropna(fr, subset) ==
    LET keep(r) == \A j \in DOMAIN subset : notna(r.cells[subset[j]])
    IN [columns |-> fr.columns, rows |-> SelectSeq(fr.rows, keep)]

\* frame.drop(columns=[c])
drop_column(fr, c) ==
    LET other(n) == n # c
    IN [columns |-> SelectSeq(fr.columns, other),
        rows |-> [i \in 1..Len(fr.rows) |->
                    [idx |-> fr.rows[i].idx,
                     cells |-> [n \in (DOMAIN fr.rows[i].cells) \ {c} |->
                                  fr.rows[i].cells[n]]]]]

----------------------------------------------------------------------------
(* Coordinate reference systems *)

COMMON_EPSG == {4326, 3857, 2056, 3035}

\* The codes the geodetic registry knows; any other code raises CRSError.
Registry == COMMON_EPSG

\* What the two EPSG inputs take here: three of the common codes and one
\* code entered under "Other..." that the registry does not know.
EpsgInputs == {4326, 3857, 2056, 9999}

Off(code) ==
    CASE code = 4326 -> 0
      [] code = 3857 -> 10
      [] code = 2056 -> 20
      [] OTHER -> 30

\* The forward transformation of one coordinate pair from CRS s to CRS d.
transform_point(p, s, d) ==
    <<p[1] + Off(d) - Off(s), p[2] + 2 * (Off(d) - Off(s))>>

transform_geom(gm, s, d) ==
    [type |-> gm.type,
     coords |-> [j \in 1..Len(gm.coords) |-> transform_point(gm.coords[j], s, d)]]

----------------------------------------------------------------------------
(* Feature collections (geopandas GeoDataFrame) *)

NoGdf == [isGdf |-> FALSE, crs |-> 0, columns |-> <<>>, rows |-> <<>>]

\* The attribute columns of a collection, in column order.
AttrCols(g) == LET attr(n) == n # "geometry" IN SelectSeq(g.columns, attr)

\* gpd.GeoDataFrame(frame, geometry=geoms, crs="EPSG:<epsg>"): the geometry
\* is stored in the column named geometry (overwriting a column of that
\* name, appended otherwise); an unknown code raises.
GeoDataFrame(fr, geoms, epsg) ==
    IF epsg \notin Registry THEN [ok |-> FALSE, gdf |-> NoGdf]
    ELSE [ok |-> TRUE,
          gdf |-> [isGdf |-> TRUE,
                   crs |-> epsg,
                   columns |-> IF "geometry" \in ColSet(fr) THEN fr.columns
                               ELSE Append(fr.columns, "geometry"),
                   rows |-> [i \in 1..Len(fr.rows) |->
                               [idx |-> fr.rows[i].idx,
                                attrs |-> [n \in (DOMAIN fr.rows[i].cells)
                                                  \ {"geometry"} |->
                                             fr.rows[i].cells[n]],
                                geom |-> geoms[i]]]]]

\* gpd.points_from_xy(frame[x], frame[y])
points_from_xy(fr, x, y) ==
    [i \in 1..Len(fr.rows) |->
       Geom("Point", <<<<fr.rows[i].cells[x].n, fr.rows[i].cells[y].n>>>>)]

----------------------------------------------------------------------------
(* The geometry builders *)

\* What a builder call leaves behind: ok / the exception raised, the
\* collection returned, the caller's table as it is after the call, and how
\* many rows had been coerced or parsed when the call ended.
Raised(e, df, n) ==
    [ok |-> FALSE, err |-> e, gdf |-> NoGdf, df |-> df, rows_read |-> n]
Returned(g, df, n) ==
    [ok |-> TRUE, err |-> "", gdf |-> g, df |-> df, rows_read |-> n]

\* The guard of make_gdf_from_xy.
xy_column_missing_first_only(df, x, y) == x \notin ColSet(df)
xy_column_missing(df, x, y) == x \notin ColSet(df) \/ y \notin ColSet(df)

\* The x and y columns coerced to numbers, on the frame given.
coerce_xy(fr, x, y) ==
    LET fx == assign_column(fr, x, [i \in 1..Len(fr.rows) |->
                                     to_numeric(column(fr, x)[i])])
    IN assign_column(fx, y, [i \in 1..Len(fx.rows) |->
                               to_numeric(column(fx, y)[i])])

\* The caller's table after make_gdf_from_xy: the function rebinds df to a
\* copy first, so its column assignments never reach the caller's table.
caller_table_xy_no_copy(df, x, y) ==
    [columns |-> df.columns,
     rows |-> [i \in 1..Len(df.rows) |->
                 coerce_xy(frame_of(df), x, y).rows[i].cells]]
caller_table_xy(df, x, y) == df

\* df.dropna(subset=[x_col, y_col])
dropna_xy_first_only(fr, x, y) == dropna(fr, <<x>>)
dropna_xy(fr, x, y) == dropna(fr, <<x, y>>)

make_gdf_from_xy(df, x_col, y_col, epsg_in) ==
    IF xy_column_missing(df, x_col, y_col)
    THEN Raised("ValueError: column not found", df, 0)
    ELSE IF x_col \notin ColSet(df) THEN Raised("KeyError", df, 0)
    ELSE IF y_col \notin ColSet(df) THEN Raised("KeyError", df, Len(df.rows))
    ELSE LET kept == dropna_xy(coerce_xy(frame_of(df), x_col, y_col), x_col, y_col)
             made == GeoDataFrame(kept, points_from_xy(kept, x_col, y_col), epsg_in)
             after == caller_table_xy(df, x_col, y_col)
         IN IF made.ok THEN Returned(made.gdf, after, Len(df.rows))
            ELSE Raised("CRSError", after, Len(df.rows))

\* The guard of make_gdf_from_wkt.
wkt_column_missing(df, c) == c \notin ColSet(df)

\* The attribute frame handed to GeoDataFrame: the working frame without
\* its temporary __geom__ column.
attribute_frame_without_wkt(fr, wkt_col) ==
    drop_column(drop_column(fr, "__geom__"), wkt_col)
attribute_frame(fr, wkt_col) == drop_column(fr, "__geom__")

\* The first row whose non-null WKT cell does not parse, 0 when there is none.
first_unparsed(df, c) ==
    LET bad == {i \in 1..Len(df.rows) :
                  notna(df.rows[i][c]) /\ ~wkt_loads(df.rows[i][c]).ok}
    IN IF bad = {} THEN 0 ELSE CHOOSE i \in bad : \A j \in bad : i <= j

make_gdf_from_wkt(df, wkt_col, epsg_in) ==
    IF wkt_column_missing(df, wkt_col)
    THEN Raised("ValueError: column not found", df, 0)
    ELSE IF wkt_col \notin ColSet(df) THEN Raised("KeyError", df, 0)
    ELSE IF first_unparsed(df, wkt_col) # 0
    THEN Raised("WKTReadingError", df, first_unparsed(df, wkt_col))
    ELSE LET src == column(frame_of(df), wkt_col)
             parsed == [i \in 1..Len(src) |->
                          IF notna(src[i]) THEN GeomCell(wkt_loads(src[i]).geom)
                          ELSE NaN]
             kept == dropna(assign_column(frame_of(df), "__geom__", parsed),
                            <<"__geom__">>)
             geoms == [i \in 1..Len(kept.rows) |-> kept.rows[i].cells["__geom__"].g]
             made == GeoDataFrame(attribute_frame(kept, wkt_col), geoms, epsg_in)
         IN IF made.ok THEN Returned(made.gdf, df, Len(df.rows))
            ELSE Raised("CRSError", df, Len(df.rows))

----------------------------------------------------------------------------
(* Reprojection and encoding *)

\* What gdf.to_crs(epsg=...) leaves behind: the collection returned, the
\* collection it was called on as it is after the call, and whether the
\* coordinate transformation ran.
ToCrsResult(ok, out, self, ran) ==
    [ok |-> ok, out |-> out, self |-> self, transformed |-> ran]

transform_rows(g, epsg) ==
    [i \in 1..Len(g.rows) |->
       [g.rows[i] EXCEPT !.geom = transform_geom(g.rows[i].geom, g.crs, epsg)]]

to_crs_always_transforms(g, epsg) ==
    IF epsg \notin Registry THEN ToCrsResult(FALSE, NoGdf, g, FALSE)
    ELSE ToCrsResult(TRUE, [g EXCEPT !.crs = epsg, !.rows = transform_rows(g, epsg)],
                     g, TRUE)
to_crs_first_row_only(g, epsg) ==
    IF epsg \notin Registry THEN ToCrsResult(FALSE, NoGdf, g, FALSE)
    ELSE IF g.crs = epsg THEN ToCrsResult(TRUE, g, g, FALSE)
    ELSE ToCrsResult(TRUE,
                     [g EXCEPT !.crs = epsg,
                               !.rows = [i \in 1..Len(g.rows) |->
                                           IF i = 1 THEN transform_rows(g, epsg)[i]
                                           ELSE g.rows[i]]],
                     g, TRUE)
\* GeoDataFrame.to_crs(epsg=...): an unknown code raises before anything is
\* computed, the collection's own CRS returns the collection itself, any
\* other code returns a new collection with every coordinate recomputed.
to_crs(g, epsg) ==
    IF epsg \notin Registry THEN ToCrsResult(FALSE, NoGdf, g, FALSE)
    ELSE IF g.crs = epsg THEN ToCrsResult(TRUE, g, g, FALSE)
    ELSE ToCrsResult(TRUE, [g EXCEPT !.crs = epsg, !.rows = transform_rows(g, epsg)],
                     g, TRUE)

\* A property value of the GeoJSON text: a missing cell is written null.
json_value(c) == IF c.k = "nan" THEN [k |-> "null", n |-> 0, s |-> <<>>]
                 ELSE [k |-> c.k, n |-> c.n, s |-> c.s]

\* The features gdf.to_json(drop_id=True) writes for a collection.
json_features(g) ==
    [i \in 1..Len(g.rows) |->
       [type |-> "Feature",
        properties |-> [j \in 1..Len(AttrCols(g)) |->
                          <<AttrCols(g)[j], json_value(g.rows[i].attrs[AttrCols(g)[j]])>>],
        geometry |-> [type |-> g.rows[i].geom.type,
                      coordinates |-> g.rows[i].geom.coords]]]

NoBytes == [ok |-> FALSE, type |-> "", features |-> <<>>]

to_geojson_bytes_to_wgs84(g) ==
    [ok |-> TRUE, type |-> "FeatureCollection",
     features |-> json_features(to_crs(g, 4326).out)]
\* to_geojson_bytes: the collection as it is, whatever its CRS.
to_geojson_bytes(g) ==
    [ok |-> TRUE, type |-> "FeatureCollection", features |-> json_features(g)]

----------------------------------------------------------------------------
(* Uploaded tables *)

WPoint == Str(<<"POINT", "(", "1", "2", ")">>)
WLine == Str(<<"LINESTRING", "(", "0", "0", ",", "1", "1", ")">>)
WPolygon == Str(<<"POLYGON", "(", "(", "0", "0", ",", "0", "1", ",", "1", "1", ",",
                  "0", "0", ")", ")">>)
WBadSyntax == Str(<<"POINT", "(", "1">>)
WCircle == Str(<<"CIRCLE", "(", "1", "2", ")">>)

\* The cells a column of the given name holds in the uploaded tables.
ColCells(c) ==
    CASE c = "lon" -> {NaN, Num(3), Str(<<"7">>), Str(<<"bad">>)}
      [] c = "lat" -> {NaN, Str(<<"-", "1">>)}
      [] c = "wkt" -> {NaN, WPoint, WLine, WPolygon, WBadSyntax, WCircle}
      [] c = "geometry" -> {Str(<<"old">>)}
      [] c = "__geom__" -> {Num(1)}
      [] OTHER -> {Str(<<"a">>)}

Schemas ==
    {<<"lon", "lat">>, <<"name", "wkt">>, <<"wkt", "geometry">>,
     <<"__geom__", "wkt">>, <<"name">>}

SchemaRows(s) ==
    LET cols == {s[i] : i \in DOMAIN s}
        cells == UNION {ColCells(c) : c \in cols}
    IN {r \in [cols -> cells] : \A c \in cols : r[c] \in ColCells(c)}

\* A table that passed the df.empty check has at least one row.
Tables ==
    UNION {{[columns |-> s, rows |-> rs] :
              rs \in UNION {[1..n -> SchemaRows(s)] : n \in 1..MaxRows}} :
           s \in Schemas}

\* The column names a direct call of a builder is given.
ArgNames == {"lon", "lat", "wkt", "absent"}

----------------------------------------------------------------------------
(* The script *)

VARIABLES
    pc,             \* where the script run is
    df,             \* the caller's table
    df0,            \* the table as uploaded
    geom_mode, x_col, y_col, wkt_col, epsg_in, epsg_out,
    ret,            \* what the builder call left behind
    built,          \* the collection as the builder returned it
    gdf,            \* the script's collection
    reported,       \* the row count shown to the user
    enc,            \* the collection handed to to_geojson_bytes
    geojson_bytes,  \* the download
    log             \* the to_crs calls made so far

vars == <<pc, df, df0, geom_mode, x_col, y_col, wkt_col, epsg_in, epsg_out,
          ret, built, gdf, reported, enc, geojson_bytes, log>>

NoRet == [ok |-> FALSE, err |-> "", gdf |-> NoGdf, df |-> <<>>, rows_read |-> 0]

InitAt(start) ==
    /\ pc = start
    /\ df \in Tables
    /\ df0 = df
    /\ geom_mode = "" /\ x_col = "" /\ y_col = "" /\ wkt_col = ""
    /\ epsg_in = 0 /\ epsg_out = 0
    /\ ret = NoRet
    /\ built = NoGdf /\ gdf = NoGdf /\ enc = NoGdf
    /\ reported = -1
    /\ geojson_bytes = NoBytes
    /\ log = <<>>

Init == InitAt("settings")

\* The end of the try block: the collection on success, the error box and
\* no collection on an exception.
AfterBuild(r) ==
    /\ ret' = r
    /\ df' = r.df
    /\ built' = r.gdf
    /\ gdf' = r.gdf
    /\ pc' = IF r.ok THEN "reproject" ELSE "idle"
    /\ UNCHANGED <<df0, reported, enc, geojson_bytes, log>>

\* "Build points" clicked.
BuildXY ==
    /\ pc = "settings"
    /\ Len(df.columns) >= 2
    /\ \E x \in ColSet(df), y \in ColSet(df), ei \in EpsgInputs, eo \in EpsgInputs :
         /\ geom_mode' = "xy" /\ x_col' = x /\ y_col' = y /\ wkt_col' = ""
         /\ epsg_in' = ei /\ epsg_out' = eo
         /\ AfterBuild(make_gdf_from_xy(df, x, y, ei))

\* X/Y mode on a one-column table: the Y selectbox (index 1) raises inside
\* the try block, whether or not the button is clicked.
BuildXYOneColumn ==
    /\ pc = "settings"
    /\ Len(df.columns) < 2
    /\ \E ei \in EpsgInputs, eo \in EpsgInputs :
         /\ geom_mode' = "xy" /\ x_col' = df.columns[1] /\ y_col' = "" /\ wkt_col' = ""
         /\ epsg_in' = ei /\ epsg_out' = eo
         /\ AfterBuild(Raised("StreamlitAPIException", df, 0))

\* "Build geometries from WKT" clicked.
BuildWKT ==
    /\ pc = "settings"
    /\ \E c \in ColSet(df), ei \in EpsgInputs, eo \in EpsgInputs :
         /\ geom_mode' = "wkt" /\ x_col' = "" /\ y_col' = "" /\ wkt_col' = c
         /\ epsg_in' = ei /\ epsg_out' = eo
         /\ AfterBuild(make_gdf_from_wkt(df, c, ei))

\* A run in which no build button is clicked.
NoBuild ==
    /\ pc = "settings"
    /\ pc' = "idle"
    /\ UNCHANGED <<df, df0, geom_mode, x_col, y_col, wkt_col, epsg_in, epsg_out,
                   ret, built, gdf, reported, enc, geojson_bytes, log>>

LogEntry(line, g, epsg, r) ==
    [line |-> line, target |-> epsg, before |-> g, ok |-> r.ok, out |-> r.out,
     self |-> r.self, transformed |-> r.transformed]

\* if epsg_in != epsg_out
reproject_requested_unless_wgs84(ei, eo) == eo # 4326
reproject_requested(ei, eo) == ei # eo

\* gdf = gdf.to_crs(epsg=epsg_out); the exception of an unknown code is
\* not caught and ends the run.
Reproject ==
    /\ pc = "reproject"
    /\ IF reproject_requested(epsg_in, epsg_out)
       THEN LET r == to_crs(gdf, epsg_out)
            IN /\ log' = Append(log, LogEntry(166, gdf, epsg_out, r))
               /\ gdf' = IF r.ok THEN r.out ELSE r.self
               /\ pc' = IF r.ok THEN "report" ELSE "crashed"
       ELSE /\ pc' = "report"
            /\ UNCHANGED <<gdf, log>>
    /\ UNCHANGED <<df, df0, geom_mode, x_col, y_col, wkt_col, epsg_in, epsg_out,
                   ret, built, reported, enc, geojson_bytes>>

\* st.success(... Rows with valid geometry: len(gdf))
Report ==
    /\ pc = "report"
    /\ reported' = Len(gdf.rows)
    /\ pc' = "preview"
    /\ UNCHANGED <<df, df0, geom_mode, x_col, y_col, wkt_col, epsg_in, epsg_out,
                   ret, built, gdf, enc, geojson_bytes, log>>

\* st.map(gdf.to_crs(epsg=4326)) inside try / except
Preview ==
    /\ pc = "preview"
    /\ LET r == to_crs(gdf, 4326)
       IN /\ log' = Append(log, LogEntry(177, gdf, 4326, r))
          /\ gdf' = r.self
    /\ pc' = "download"
    /\ UNCHANGED <<df, df0, geom_mode, x_col, y_col, wkt_col, epsg_in, epsg_out,
                   ret, built, reported, enc, geojson_bytes>>

\* The collection handed to to_geojson_bytes.
download_collection_as_is(g) == ToCrsResult(TRUE, g, g, FALSE)
download_collection(g) == to_crs(g, 4326)

\* geojson_bytes = to_geojson_bytes(gdf.to_crs(epsg=4326))
Download ==
    /\ pc = "download"
    /\ LET r == download_collection(gdf)
       IN /\ log' = Append(log, LogEntry(182, gdf, 4326, r))
          /\ gdf' = r.self
          /\ enc' = r.out
          /\ geojson_bytes' = IF r.ok THEN to_geojson_bytes(r.out) ELSE NoBytes
          /\ pc' = IF r.ok THEN "done" ELSE "crashed"
    /\ UNCHANGED <<df, df0, geom_mode, x_col, y_col, wkt_col, epsg_in, epsg_out,
                   ret, built, reported>>

Next ==
    \/ BuildXY
    \/ BuildXYOneColumn
    \/ BuildWKT
    \/ NoBuild
    \/ Reproject
    \/ Report
    \/ Preview
    \/ Download

Spec == Init /\ [][Next]_vars

----------------------------------------------------------------------------
(* Direct calls of the functions, on any arguments *)

InitFn == InitAt("call")

CallXY ==
    /\ pc = "call"
    /\ \E x \in ArgNames, y \in ArgNames, ei \in EpsgInputs :
         LET r == make_gdf_from_xy(df, x, y, ei)
         IN /\ geom_mode' = "xy" /\ x_col' = x /\ y_col' = y /\ wkt_col' = ""
            /\ epsg_in' = ei
            /\ ret' = r /\ df' = r.df /\ built' = r.gdf /\ gdf' = r.gdf
    /\ pc' = "called"
    /\ UNCHANGED <<df0, epsg_out, reported, enc, geojson_bytes, log>>

CallWKT ==
    /\ pc = "call"
    /\ \E c \in ArgNames, ei \in EpsgInputs :
         LET r == make_gdf_from_wkt(df, c, ei)
         IN /\ geom_mode' = "wkt" /\ x_col' = "" /\ y_col' = "" /\ wkt_col' = c
            /\ epsg_in' = ei
            /\ ret' = r /\ df' = r.df /\ built' = r.gdf /\ gdf' = r.gdf
    /\ pc' = "called"
    /\ UNCHANGED <<df0, epsg_out, reported, enc, geojson_bytes, log>>

CallEncode ==
    /\ pc = "called"
    /\ ret.ok
    /\ enc' = gdf
    /\ geojson_bytes' = to_geojson_bytes(gdf)
    /\ pc' = "encoded"
    /\ UNCHANGED <<df, df0, geom_mode, x_col, y_col, wkt_col, epsg_in, epsg_out,
                   ret, built, gdf, reported, log>>

NextFn == CallXY \/ CallWKT \/ CallEncode

SpecFn == InitFn /\ [][NextFn]_vars

----------------------------------------------------------------------------
(* Properties *)

Built == pc \notin {"settings", "call"} /\ geom_mode # ""

\* The rows of the uploaded table, by position.
RowNumbers == [i \in 1..Len(df0.rows) |-> i]

Idx(g) == [k \in 1..Len(g.rows) |-> g.rows[k].idx]

XYNumeric(i) ==
    /\ notna(to_numeric(df0.rows[i][x_col]))
    /\ notna(to_numeric(df0.rows[i][y_col]))

WKTParses(i) ==
    /\ notna(df0.rows[i][wkt_col])
    /\ wkt_loads(df0.rows[i][wkt_col]).ok

XYSurvivors == SelectSeq(RowNumbers, XYNumeric)
WKTSurvivors == SelectSeq(RowNumbers, WKTParses)

\* C1: in WKT mode, with the WKT column present, a row whose non-null WKT
\* does not parse is left out and the build still succeeds, returning every
\* row whose WKT parses.
C1_UnparsedRowsAreDropped ==
    (Built /\ geom_mode = "wkt" /\ wkt_col \in ColSet(df0) /\ epsg_in \in Registry)
        => /\ ret.ok
           /\ Idx(built) = WKTSurvivors

\* C2: in X/Y mode the collection built is exactly the rows whose x and y
\* both coerce to a number, in input order, each with the Point (x, y); the
\* other rows are absent and the row count reported is the number of
\* surviving rows.
C2_XYSurvivors ==
    (Built /\ geom_mode = "xy" /\ x_col \in ColSet(df0) /\ y_col \in ColSet(df0))
        => /\ ret.ok <=> epsg_in \in Registry
           /\ ret.ok =>
                /\ Idx(built) = XYSurvivors
                /\ \A k \in 1..Len(built.rows) :
                      built.rows[k].geom =
                        Geom("Point",
                             <<<<to_numeric(df0.rows[built.rows[k].idx][x_col]).n,
                                 to_numeric(df0.rows[built.rows[k].idx][y_col]).n>>>>)
                /\ Len(built.rows) =
                     Len(df0.rows)
                       - Cardinality({i \in 1..Len(df0.rows) : ~XYNumeric(i)})
                /\ reported # -1 => reported = Len(XYSurvivors)

C2_Witness ==
    /\ pc = "done" /\ geom_mode = "xy"
    /\ Len(df0.rows) = 2 /\ Idx(built) = <<2>>
    /\ df0.rows[2][x_col].k = "str"
    /\ reported = 1

\* C3 as claimed: in WKT mode the attribute columns of the collection are
\* the input columns without the selected WKT column, in the original order.
C3_WKTColumnRemoved ==
    (Built /\ geom_mode = "wkt" /\ ret.ok)
        => LET other(n) == n # wkt_col
           IN AttrCols(built) = SelectSeq(df0.columns, other)

\* C3 amended: in WKT mode the attribute columns are the input columns in
\* the original order, the selected WKT column included with its text as
\* uploaded; only a column named __geom__ or geometry is not an attribute.
C3_WKTColumnKept ==
    (Built /\ geom_mode = "wkt" /\ ret.ok)
        => LET kept(n) == n \notin {"__geom__", "geometry"}
           IN /\ AttrCols(built) = SelectSeq(df0.columns, kept)
              /\ \A k \in 1..Len(built.rows) :
                    /\ DOMAIN built.rows[k].attrs
                         = {AttrCols(built)[j] : j \in DOMAIN AttrCols(built)}
                    /\ \A n \in DOMAIN built.rows[k].attrs :
                          built.rows[k].attrs[n] = df0.rows[built.rows[k].idx][n]

C3_Witness ==
    /\ Built /\ geom_mode = "wkt" /\ ret.ok
    /\ Len(built.rows) = 2
    /\ wkt_col = "wkt"
    /\ AttrCols(built) = <<"name", "wkt">>

\* C4: a builder called with a column name the table does not have fails
\* with the column-not-found error before any row is coerced or parsed, and
\* produces no collection.
C4_MissingColumnFailsFirst ==
    (/\ Built
     /\ \/ geom_mode = "xy" /\ (x_col \notin ColSet(df0) \/ y_col \notin ColSet(df0))
        \/ geom_mode = "wkt" /\ wkt_col \notin ColSet(df0))
        => /\ ~ret.ok
           /\ ret.err = "ValueError: column not found"
           /\ ret.rows_read = 0
           /\ ~gdf.isGdf
           /\ ~geojson_bytes.ok

C4_Witness ==
    /\ pc = "called" /\ geom_mode = "xy"
    /\ x_col \in ColSet(df0) /\ y_col \notin ColSet(df0)
    /\ ~ret.ok

FeatureCoords(b) == [i \in 1..Len(b.features) |-> b.features[i].geometry.coordinates]
RowCoords(g) == [i \in 1..Len(g.rows) |-> g.rows[i].geom.coords]

\* C5 as claimed: to_geojson_bytes returns no bytes for a collection whose
\* CRS is not EPSG:4326.
C5_EncodeRefusesOtherCRS ==
    (pc = "encoded" /\ enc.crs # 4326) => ~geojson_bytes.ok

\* C5 amended: to_geojson_bytes returns bytes for a collection in any CRS,
\* one feature per row with the collection's coordinates as they are: it
\* neither checks the CRS nor reprojects.
C5_EncodeAnyCRSAsIs ==
    pc = "encoded"
        => /\ geojson_bytes.ok
           /\ FeatureCoords(geojson_bytes) = RowCoords(enc)

C5_Witness ==
    /\ pc = "encoded"
    /\ enc.crs = 2056
    /\ Len(enc.rows) = 2
    /\ geojson_bytes.ok

\* C6: whenever the script produces the download, the collection that was
\* encoded is in EPSG:4326, whatever source and target EPSG were chosen.
C6_DownloadIsWGS84 ==
    geojson_bytes.ok
        => /\ enc.isGdf
           /\ enc.crs = 4326
           /\ FeatureCoords(geojson_bytes) = RowCoords(enc)

C6_Witness ==
    /\ pc = "done" /\ geojson_bytes.ok
    /\ epsg_out = 3857 /\ gdf.crs = 3857
    /\ Len(enc.rows) >= 1

\* C7: a to_crs call whose target is the collection's own CRS runs no
\* coordinate transformation and returns the coordinates and the CRS it was
\* given, the call before encoding included; with equal source and target
\* EPSG the script makes no reprojection call of its own.
C7_SameCRSIsNoOp ==
    /\ \A i \in DOMAIN log :
          log[i].target = log[i].before.crs
              => /\ log[i].ok
                 /\ ~log[i].transformed
                 /\ log[i].out = log[i].before
    /\ (pc \in {"report", "preview", "download", "done"} /\ epsg_in = epsg_out)
          => /\ gdf = built
             /\ \A i \in DOMAIN log : log[i].line # 166

C7_Witness ==
    /\ pc = "done"
    /\ \E i \in DOMAIN log :
          /\ log[i].line = 182
          /\ log[i].before.crs = 4326
          /\ Len(log[i].before.rows) >= 1
    /\ epsg_in = 2056

\* The replacements of the collection's CRS between construction and
\* encoding (the preview's collection is not the one encoded).
Replacements ==
    Cardinality({i \in DOMAIN log :
                   /\ log[i].line # 177
                   /\ log[i].ok
                   /\ log[i].out.crs # log[i].before.crs})

\* C8 as claimed: the CRS is assigned at construction from the declared
\* source EPSG and replaced at most once before encoding.
C8_ReplacedAtMostOnce ==
    /\ built.isGdf => built.crs = epsg_in
    /\ Replacements <= 1

\* C8 amended: the CRS is assigned at construction from the declared source
\* EPSG; it is replaced once by the reprojection to the target EPSG when
\* that differs from the source, and once more before encoding when the
\* target is not EPSG:4326, so twice when the target differs from both.
C8_ReplacedPerStep ==
    /\ built.isGdf => built.crs = epsg_in
    /\ Replacements =
         (IF pc \in {"report", "preview", "download", "done"} /\ epsg_in # epsg_out
          THEN 1 ELSE 0)
         + (IF pc = "done" /\ epsg_out # 4326 THEN 1 ELSE 0)

C8_Witness ==
    /\ pc = "done"
    /\ epsg_in = 2056 /\ epsg_out = 3857
    /\ Replacements = 2
    /\ enc.crs = 4326

\* C9: no stage changes what it is given: the caller's table is as uploaded
\* after a builder returned or failed, every to_crs call leaves the
\* collection it is called on as it was, and the script's collection is
\* still the reprojected one after the preview and the encoding.
C9_InputsUnchanged ==
    /\ df = df0
    /\ Built => ret.df = df0
    /\ \A i \in DOMAIN log : log[i].self = log[i].before
    /\ \A i \in DOMAIN log :
          (log[i].line # 166 \/ ~log[i].ok) => gdf = log[i].before
    /\ (pc = "done") => gdf.crs = epsg_out

C9_Witness ==
    /\ pc = "done" /\ geom_mode = "xy"
    /\ \E i \in 1..Len(df0.rows) :
          /\ df0.rows[i][x_col].k = "str"
          /\ to_numeric(df0.rows[i][x_col]) # df0.rows[i][x_col]
    /\ Len(built.rows) < Len(df0.rows)
    /\ gdf.crs # 4326

\* The geometries of collection g are those the builder returned, every one
\* of them expressed in the CRS g is tagged with.
Uniform(g) ==
    /\ Len(g.rows) = Len(built.rows)
    /\ \A i \in 1..Len(g.rows) :
          g.rows[i].geom = transform_geom(built.rows[i].geom, built.crs, g.crs)

\* C10: every collection the script holds or encodes has all its
\* geometries in the CRS of its tag; a to_crs call either returns a
\* collection with the new tag and every geometry transformed, or fails and
\* leaves the collection as it was, in which case nothing is encoded.
C10_ReprojectionIsAtomic ==
    /\ gdf.isGdf => Uniform(gdf)
    /\ enc.isGdf => Uniform(enc)
    /\ \A i \in DOMAIN log :
          LET e == log[i]
          IN \/ /\ e.ok
                /\ e.out.crs = e.target
                /\ Len(e.out.rows) = Len(e.before.rows)
                /\ \A j \in 1..Len(e.out.rows) :
                      e.out.rows[j].geom
                        = transform_geom(e.before.rows[j].geom, e.before.crs, e.target)
             \/ /\ ~e.ok
                /\ ~e.out.isGdf
                /\ e.self = e.before
    /\ pc = "crashed" => (gdf = built /\ ~enc.isGdf /\ ~geojson_bytes.ok)

C10_Witness ==
    /\ pc = "done"
    /\ Len(gdf.rows) = 2
    /\ gdf.crs # built.crs
    /\ enc.crs # gdf.crs
    /\ gdf.rows[2].geom # built.rows[2].geom

====
